---------------------------- MODULE Spec2Model ----------------------------
(***************************************************************************)
(* The client facade of the respoke/brightstream browser library:          *)
(*   src/webrtc/client.js   webrtc.Client, the single-user facade          *)
(*   src/unnamed/part_000   webrtc.Mercury, the multi-session variant      *)
(*   src/brightstream.js    the module-level factories, the instance       *)
(*                          registry, getClient and makeUniqueID           *)
(* client.js addresses the library namespace as `webrtc`, brightstream.js  *)
(* as `brightstream`; the model takes them as one namespace, so that       *)
(* webrtc.instances is brightstream.instances and webrtc.makeUniqueID is   *)
(* brightstream.makeUniqueID.                                              *)
(*                                                                         *)
(* Facades are numbered in order of construction: a facade is an index     *)
(* into the per-facade sequences; a User is the number of the login promise*)
(* that was fulfilled with it (the identity provider creates one User and  *)
(* one UserSession per fulfilled login).                                   *)
(***************************************************************************)
EXTENDS Integers, Sequences, FiniteSets, TLC

(* ------------------------------ bounds -------------------------------- *)
\* facades constructed in one run
MaxFacades == 2
\* facades constructed and login calls issued in one run, together
MaxObjects == 3
\* makeUniqueID draws from 0 .. NumIds-1 (the code: 0 .. 99999999)
NumIds == 2
\* longest usernames array passed to logout
MaxNames == 1
\* most sessions in the collection of a webrtc.Mercury
MaxSessions == 2

(* ------------------------------ values -------------------------------- *)
null == 0
\* in the registry: an object whose constructor threw before it defined
\* any method
Partial == -1
undefined == "undefined"
NoId == ""

\* the numbers makeUniqueID can return
Ids == 0 .. (NumIds - 1)

\* user accounts handed to login; "0" is an account whose name is also the
\* name of an array index
Accounts == {"alice", "0"}

\* constraints and servers an application passes
GivenConstraints == {"{video:true,audio:false}"}
GivenServers == {"{iceServers:[{url:'stun:stun.example.org'}]}"}

\* client.js:38-43, the built-in constraints of webrtc.Client
ClientDefaultConstraints == "[{video:{mandatory:{minWidth:640,minHeight:480}},audio:true,optional:[],mandatory:{}}]"
\* part_000:65-70, the built-in constraints of webrtc.Mercury
MercuryDefaultConstraints == "{video:true,audio:true,optional:[],mandatory:{}}"
\* client.js:44-50 and part_000:71-77, the built-in ICE server list
DefaultServers == "{iceServers:[{url:'turn:toto@174.129.201.5:3478',credential:'password'}]}"

\* the configuration object of a constructor: each field given or absent
Params == [constraints : {undefined} \cup GivenConstraints,
           servers : {undefined} \cup GivenServers]
\* the argument of setDefaultMediaSettings
Settings == [constraints : {undefined} \cup GivenConstraints,
             servers : {undefined} \cup GivenServers]

\* the usernames argument of logout: omitted, or an array of accounts
Omitted == [given |-> FALSE, list |-> <<>>]
Arrays == UNION {[1 .. n -> Accounts] : n \in 0 .. MaxNames}
Usernames == {Omitted} \cup {[given |-> TRUE, list |-> a] : a \in Arrays}

VARIABLES
    kind,           \* per facade: "Client" or "Mercury"
    client,         \* per facade: the id of client.js:25 (NoId for Mercury)
    connected,      \* per facade: the private flag `connected`
    user,           \* per facade: that.user, null or a User
    mediaSettings,  \* per facade: the private variable `mediaSettings`
    userSessions,   \* per facade: the private array `userSessions` (Mercury)
    instances,      \* the registry: key -> object, null where no entry
    promises,       \* the login promises, in order of the calls
    session,        \* per User: its UserSession [userAccount, loggedIn]
    online,         \* per User: setOnline() was invoked on it
    returned,       \* per login call: the future the call returned
    last            \* the most recent call and what it did

vars == <<kind, client, connected, user, mediaSettings, userSessions,
          instances, promises, session, online, returned, last>>

\* the facades whose constructor returned, in order of construction
Facades == 1 .. Len(kind)

(* ------------------------- pure functions ----------------------------- *)
\* Number.prototype.toString of an array index (client.js:25 and the keys
\* of an array)
toString(i) == <<"0", "1", "2", "3", "4", "5", "6", "7", "8", "9">>[i + 1]

\* the property names every array inherits or owns besides its indices
ArrayProperties == {"length", "push", "forEach", "constructor"}

\* the JavaScript operator `key in array` (client.js:160): true iff key is
\* the name of a property of the array, i.e. an index below its length or
\* an own or inherited property
In(key, array) ==
    \/ \E i \in 0 .. (Len(array) - 1) : toString(i) = key
    \/ key \in ArrayProperties

\* x || y on a value that is undefined when absent (client.js:38, 44)
Or(x, y) == IF x = undefined THEN y ELSE x

\* an invocation of a collaborator's operation and its outcome there
Invoke(to, arg, ok) == [to |-> to, arg |-> arg, ok |-> ok]

\* the record of a call: what was called, on which object, what it threw,
\* what it returned (an object or a promise, null for nothing) and which
\* collaborator operations it invoked
Call(op, obj, threw, result, calls) ==
    [op |-> op, obj |-> obj, threw |-> threw, result |-> result, calls |-> calls]

(* --------------------------- observers -------------------------------- *)
\* client.js:173-175, part_000:225-227
isConnected(c) == connected[c]

\* UserSession.isLoggedIn(), the flag of the session
sessionIsLoggedIn(u) == session[u].loggedIn

\* client.js:183-188 for webrtc.Client, part_000:235-241 for webrtc.Mercury
isLoggedIn(c) ==
    IF kind[c] = "Client"
    THEN IF user[c] # null THEN sessionIsLoggedIn(user[c]) ELSE FALSE
    ELSE \E i \in 1 .. Len(userSessions[c]) : sessionIsLoggedIn(userSessions[c][i])

\* client.js:197-199, of webrtc.Client
getMediaSettings(c) == mediaSettings[c]

\* part_000:260-262, of webrtc.Mercury: it reads that.mediaSettings, a
\* property nothing defines (the settings are the private variable)
getDefaultMediaSettings(c) == undefined

\* the argument of getClient: a number, the string getID() returns, or
\* nothing
Number(n) == [type |-> "number", n |-> n, s |-> ""]
String(s) == [type |-> "string", n |-> 0, s |-> s]
NoArgument == [type |-> "undefined", n |-> 0, s |-> ""]
\* the property name instances[id] reads for an argument
PropertyKey(id) ==
    CASE id.type = "number" -> toString(id.n)
      [] id.type = "string" -> id.s
      [] OTHER -> undefined

\* the names under which the registry can hold an entry
Keys == {toString(i) : i \in Ids}

\* brightstream.js:80-89: the entry of the registry under the argument's
\* property name, undefined (null here) where there is none; it logs and
\* never throws
getClientResult(id) ==
    IF PropertyKey(id) \in Keys THEN instances[PropertyKey(id)] ELSE null

(* --------------------------- construction ----------------------------- *)
\* brightstream.js:118-121: Math.floor(Math.random() * 100000000), any
\* number of the range, whatever was drawn before
makeUniqueID == Ids

\* a variant that resolves every name
findClass_alwaysFinds(className, loaded) == className

\* client.js:74-81, part_000:103-110: the class of that name in the webrtc
\* or the window scope, undefined when neither has it.  `loaded` tells
\* whether the scopes hold the class.
findClass(className, loaded) == IF loaded THEN className ELSE undefined

\* a variant that never reads the configuration
clientMediaSettings_ignoresParams(params) ==
    [constraints |-> ClientDefaultConstraints, servers |-> DefaultServers]

\* client.js:37-51: each field from the configuration, the built-in
\* default where the configuration has none
clientMediaSettings(params) ==
    [constraints |-> Or(params.constraints, ClientDefaultConstraints),
     servers |-> Or(params.servers, DefaultServers)]

\* part_000:64-78: the built-in values, whatever the configuration
mercuryMediaSettings(params) ==
    [constraints |-> MercuryDefaultConstraints, servers |-> DefaultServers]

\* a variant in which a facade is born connected
initialFlag_startsConnected(conn) == Append(conn, TRUE)

\* client.js:32, part_000:56: the flag of a facade under construction
initialFlag(conn) == Append(conn, FALSE)

\* client.js:98-101, part_000:141-144: the assignment after open()
connectFlag(conn, c) == [conn EXCEPT ![c] = TRUE]

\* a variant that flips the flag instead of clearing it
disconnectFlag_toggles(conn, c) == [conn EXCEPT ![c] = ~@]

\* client.js:108-111, part_000:151-154: the assignment after close()
disconnectFlag(conn, c) == [conn EXCEPT ![c] = FALSE]

\* client.js:22-228, the constructor.  The id is drawn and the object
\* registered (25-27) before the collaborators are resolved and
\* instantiated (83-84): calling an unresolved class throws a TypeError out
\* of the constructor, and the entry stays behind, for an object without
\* methods that nothing else refers to.
\* `thenConnect` is brightstream.connect's client.connect(params).
construct(params, n, sc, idp, thenConnect, openOk, op) ==
    LET c == Len(kind) + 1
        id == toString(n)
        ok == /\ findClass("XMPPSignalingChannel", sc) # undefined
              /\ findClass("XMPPIdentityProvider", idp) # undefined
        conn == initialFlag(connected)
    IN  /\ Len(kind) < MaxFacades
        /\ Len(kind) + Len(promises) < MaxObjects
        /\ IF ok
           THEN /\ instances' = [instances EXCEPT ![id] = c]
                /\ kind' = Append(kind, "Client")
                /\ client' = Append(client, id)
                /\ connected' = IF thenConnect THEN connectFlag(conn, c) ELSE conn
                /\ mediaSettings' = Append(mediaSettings, clientMediaSettings(params))
                /\ user' = Append(user, null)
                /\ userSessions' = Append(userSessions, <<>>)
                /\ last' = IF thenConnect
                           THEN Call(op, c, "none", c,
                                     {Invoke("signalingChannel.open", "", openOk)})
                           ELSE Call(op, c, "none", c, {})
           ELSE /\ instances' = [instances EXCEPT ![id] = Partial]
                /\ last' = Call(op, null, "TypeError", null, {})
                /\ UNCHANGED <<kind, client, connected, mediaSettings, user,
                               userSessions>>
        /\ UNCHANGED <<promises, session, online, returned>>

\* a variant that connects the facade it constructed
createClient_connects(params, n, sc, idp) ==
    construct(params, n, sc, idp, TRUE, TRUE, "createClient")

\* brightstream.js:107-110: brightstream.Client(params) and nothing else
createClient(params, n, sc, idp) ==
    construct(params, n, sc, idp, FALSE, FALSE, "createClient")

\* brightstream.js:67-72: brightstream.Client(params), then connect() on it
brightstream_connect(params, n, sc, idp, openOk) ==
    construct(params, n, sc, idp, TRUE, openOk, "brightstream.connect")

\* part_000:37-304: no id and no registry entry; an unresolved collaborator
\* class throws before anything outside the discarded object was written
Mercury(params, sc, idp) ==
    LET c == Len(kind) + 1
        ok == /\ findClass("XMPPSignalingChannel", sc) # undefined
              /\ findClass("XMPPIdentityProvider", idp) # undefined
    IN  /\ Len(kind) < MaxFacades
        /\ Len(kind) + Len(promises) < MaxObjects
        /\ IF ok
           THEN /\ kind' = Append(kind, "Mercury")
                /\ client' = Append(client, NoId)
                /\ connected' = initialFlag(connected)
                /\ mediaSettings' = Append(mediaSettings, mercuryMediaSettings(params))
                /\ user' = Append(user, null)
                /\ userSessions' = Append(userSessions, <<>>)
                /\ last' = Call("Mercury", c, "none", c, {})
           ELSE /\ UNCHANGED <<kind, client, connected, mediaSettings, user,
                               userSessions>>
                /\ last' = Call("Mercury", null, "TypeError", null, {})
        /\ UNCHANGED <<instances, promises, session, online, returned>>

(* ------------------------ connect, disconnect ------------------------- *)
\* a variant that sets the flag only when the transport opened
connect_ifOpened(c, openOk) ==
    /\ c \in Facades
    /\ connected' = IF openOk THEN connectFlag(connected, c) ELSE connected
    /\ last' = Call("connect", c, "none", null,
                    {Invoke("signalingChannel.open", "", openOk)})
    /\ UNCHANGED <<kind, client, user, mediaSettings, userSessions,
                   instances, promises, session, online, returned>>

\* client.js:98-101, part_000:141-144.  openOk is the outcome of the
\* transport open, which the facade never learns.
connect(c, openOk) ==
    /\ c \in Facades
    /\ connected' = connectFlag(connected, c)
    /\ last' = Call("connect", c, "none", null,
                    {Invoke("signalingChannel.open", "", openOk)})
    /\ UNCHANGED <<kind, client, user, mediaSettings, userSessions,
                   instances, promises, session, online, returned>>

\* a variant that drops the current user with the connection
disconnect_dropsUser(c, closeOk) ==
    /\ c \in Facades
    /\ connected' = disconnectFlag(connected, c)
    /\ user' = [user EXCEPT ![c] = null]
    /\ last' = Call("disconnect", c, "none", null,
                    {Invoke("signalingChannel.close", "", closeOk)})
    /\ UNCHANGED <<kind, client, mediaSettings, userSessions,
                   instances, promises, session, online, returned>>

\* a variant that takes the facade out of the registry
disconnect_unregisters(c, closeOk) ==
    /\ c \in Facades
    /\ connected' = disconnectFlag(connected, c)
    /\ instances' = [k \in Keys |-> IF k = client[c] THEN null ELSE instances[k]]
    /\ last' = Call("disconnect", c, "none", null,
                    {Invoke("signalingChannel.close", "", closeOk)})
    /\ UNCHANGED <<kind, client, user, mediaSettings, userSessions,
                   promises, session, online, returned>>

\* client.js:108-111, part_000:151-154
disconnect(c, closeOk) ==
    /\ c \in Facades
    /\ connected' = disconnectFlag(connected, c)
    /\ last' = Call("disconnect", c, "none", null,
                    {Invoke("signalingChannel.close", "", closeOk)})
    /\ UNCHANGED <<kind, client, user, mediaSettings, userSessions,
                   instances, promises, session, online, returned>>

(* --------------------------- login, logout ---------------------------- *)
\* identityProvider.login(userAccount, token): a pending future of a User
identityProviderLogin(c, userAccount) ==
    [facade |-> c, userAccount |-> userAccount, state |-> "pending"]

\* the UserSession of the User the identity provider fulfils a login with:
\* created by the login, for the account logged in, authenticated
identityProviderSession(userAccount) ==
    [userAccount |-> userAccount, loggedIn |-> TRUE]

\* the future that then(success, error) derives from a future: another
\* object, named here by the negated number of the future it derives from
then(userPromise) == -userPromise

\* a variant that returns the end of the chain, userPromise.then(...)
loginReturns_chained(userPromise) == then(userPromise)

\* client.js:144, part_000:179: return userPromise
loginReturns(userPromise) == userPromise

\* client.js:134-145, part_000:169-180: the call itself, which obtains the
\* provider's future, attaches the two continuations and returns the future
login(c, userAccount) ==
    /\ c \in Facades
    /\ Len(kind) + Len(promises) < MaxObjects
    /\ promises' = Append(promises, identityProviderLogin(c, userAccount))
    /\ session' = Append(session, [userAccount |-> userAccount, loggedIn |-> FALSE])
    /\ online' = Append(online, FALSE)
    /\ returned' = Append(returned, loginReturns(Len(promises) + 1))
    /\ last' = Call("login", c, "none", loginReturns(Len(promises) + 1),
                    {Invoke("identityProvider.login", userAccount, TRUE)})
    /\ UNCHANGED <<kind, client, connected, user, mediaSettings,
                   userSessions, instances>>

\* a variant in which the User of the login issued later wins
loggedInUser_issuedLast(c, u) == [user EXCEPT ![c] = IF @ > u THEN @ ELSE u]

\* a variant that stores the User only while there is none
loggedInUser_keepsFirst(c, u) == [user EXCEPT ![c] = IF @ = null THEN u ELSE @]

\* client.js:136-140, part_000:171-175: the success continuation's writes,
\* that.user = user after user.setOnline()
loggedInUser(c, u) == [user EXCEPT ![c] = u]

\* the provider fulfils future p with its User (numbered p), and the success
\* continuation runs: setOnline() on the User, then that.user = user
fulfilled(p) ==
    /\ p \in 1 .. Len(promises)
    /\ promises[p].state = "pending"
    /\ promises' = [promises EXCEPT ![p].state = "fulfilled"]
    /\ session' = [session EXCEPT ![p] = identityProviderSession(promises[p].userAccount)]
    /\ online' = [online EXCEPT ![p] = TRUE]
    /\ user' = loggedInUser(promises[p].facade, p)
    /\ last' = Call("fulfilled", promises[p].facade, "none", p,
                    {Invoke("user.setOnline", "", TRUE)})
    /\ UNCHANGED <<kind, client, connected, mediaSettings, userSessions,
                   instances, returned>>

\* client.js:141-143, part_000:176-178: the provider rejects future p and
\* the failure continuation logs the error's message
rejected(p) ==
    /\ p \in 1 .. Len(promises)
    /\ promises[p].state = "pending"
    /\ promises' = [promises EXCEPT ![p].state = "rejected"]
    /\ last' = Call("rejected", promises[p].facade, "none", p, {})
    /\ UNCHANGED <<kind, client, connected, user, mediaSettings,
                   userSessions, instances, session, online, returned>>

\* a variant without the !usernames alternative
logoutMatches_needsList(userAccount, usernames) ==
    usernames.given /\ In(userAccount, usernames.list)

\* client.js:160: !usernames || userSession.userAccount in usernames
logoutMatches(userAccount, usernames) ==
    \/ ~usernames.given
    \/ In(userAccount, usernames.list)

\* client.js:159-163: the session of the current user is logged out when
\* usernames is omitted or the test of line 160 finds the account
logoutUserSession(c, usernames) ==
    LET userSession == session[user[c]]
    IN  IF logoutMatches(userSession.userAccount, usernames)
        THEN /\ session' = [session EXCEPT ![user[c]].loggedIn = FALSE]
             /\ last' = Call("logout", c, "none", null,
                             {Invoke("identityProvider.logout",
                                     userSession.userAccount, TRUE)})
        ELSE /\ last' = Call("logout", c, "none", null, {})
             /\ UNCHANGED session

\* a variant without the test of line 156: that.user.getUserSession() on
\* null throws a TypeError
clientLogout_noNullTest(c, usernames) ==
    /\ kind[c] = "Client"
    /\ IF user[c] = null
       THEN /\ last' = Call("logout", c, "TypeError", null, {})
            /\ UNCHANGED session
       ELSE logoutUserSession(c, usernames)
    /\ UNCHANGED <<user, userSessions>>

\* client.js:155-164: webrtc.Client's logout
clientLogout(c, usernames) ==
    /\ kind[c] = "Client"
    /\ IF user[c] = null
       THEN /\ last' = Call("logout", c, "none", null, {})
            /\ UNCHANGED session
       ELSE logoutUserSession(c, usernames)
    /\ UNCHANGED <<user, userSessions>>

\* part_000:196-215: webrtc.Mercury's logout.  The test of the loop reads
\* `username`, which nothing declares, so the first session visited throws
\* a ReferenceError; with no session the loop body never runs and that.user
\* is cleared.  (The assignment to the global blahblah, which nothing reads,
\* is not tracked.)
mercuryLogout(c, usernames) ==
    /\ kind[c] = "Mercury"
    /\ IF Len(userSessions[c]) > 0
       THEN /\ last' = Call("logout", c, "ReferenceError", null, {})
            /\ UNCHANGED user
       ELSE /\ user' = [user EXCEPT ![c] = null]
            /\ last' = Call("logout", c, "none", null, {})
    /\ UNCHANGED <<session, userSessions>>

\* a variant that also cancels the logins of the facade still in flight
logout_cancelsPending(c, usernames) ==
    /\ c \in Facades
    /\ \/ clientLogout(c, usernames)
       \/ mercuryLogout(c, usernames)
    /\ promises' = [p \in 1 .. Len(promises) |->
                        IF promises[p].facade = c /\ promises[p].state = "pending"
                        THEN [promises[p] EXCEPT !.state = "rejected"]
                        ELSE promises[p]]
    /\ UNCHANGED <<kind, client, connected, mediaSettings, instances,
                   online, returned>>

\* client.js:155-164, part_000:196-215
logout(c, usernames) ==
    /\ c \in Facades
    /\ \/ clientLogout(c, usernames)
       \/ mercuryLogout(c, usernames)
    /\ UNCHANGED <<kind, client, connected, mediaSettings, instances,
                   promises, online, returned>>

(* -------------------------- media settings ---------------------------- *)
\* a variant that assigns both fields without testing them
modifiedSettings_assignsBoth(current, settings) ==
    [constraints |-> settings.constraints, servers |-> settings.servers]

\* client.js:209-214: each field replaced when the argument gives it
modifiedSettings(current, settings) ==
    [constraints |-> IF settings.constraints # undefined
                     THEN settings.constraints ELSE current.constraints,
     servers |-> IF settings.servers # undefined
                 THEN settings.servers ELSE current.servers]

\* client.js:207-215
clientSetDefaultMediaSettings(c, settings) ==
    /\ kind[c] = "Client"
    /\ mediaSettings' = [mediaSettings EXCEPT
                             ![c] = modifiedSettings(@, settings)]
    /\ last' = Call("setDefaultMediaSettings", c, "none", null, {})

\* part_000:270-278: the assignments go to that.mediaSettings, which is
\* undefined, so giving either field throws a TypeError
mercurySetDefaultMediaSettings(c, settings) ==
    /\ kind[c] = "Mercury"
    /\ UNCHANGED mediaSettings
    /\ last' = IF settings.constraints # undefined \/ settings.servers # undefined
               THEN Call("setDefaultMediaSettings", c, "TypeError", null, {})
               ELSE Call("setDefaultMediaSettings", c, "none", null, {})

setDefaultMediaSettings(c, settings) ==
    /\ c \in Facades
    /\ \/ clientSetDefaultMediaSettings(c, settings)
       \/ mercurySetDefaultMediaSettings(c, settings)
    /\ UNCHANGED <<kind, client, connected, user, userSessions,
                   instances, promises, session, online, returned>>

(* ----------------------------- registry ------------------------------- *)
\* the arguments getClient is called with
ClientIds == {Number(n) : n \in 0 .. NumIds} \cup {String(k) : k \in Keys}
                 \cup {NoArgument}

\* brightstream.js:80-89
getClient(id) ==
    /\ last' = Call("getClient", null, "none", getClientResult(id), {})
    /\ UNCHANGED <<kind, client, connected, user, mediaSettings,
                   userSessions, instances, promises, session, online, returned>>

(* ------------------------------ Init ---------------------------------- *)
Init ==
    /\ kind = <<>>
    /\ client = <<>>
    /\ connected = <<>>
    /\ user = <<>>
    /\ mediaSettings = <<>>
    /\ userSessions = <<>>
    /\ instances = [k \in Keys |-> null]
    /\ promises = <<>>
    /\ session = <<>>
    /\ online = <<>>
    /\ returned = <<>>
    /\ last = Call("load", null, "none", null, {})

Next ==
    \/ \E params \in Params, n \in makeUniqueID, sc \in BOOLEAN, idp \in BOOLEAN :
           createClient(params, n, sc, idp)
    \/ \E params \in Params, n \in makeUniqueID, sc \in BOOLEAN, idp \in BOOLEAN,
          openOk \in BOOLEAN :
           brightstream_connect(params, n, sc, idp, openOk)
    \/ \E params \in Params, sc \in BOOLEAN, idp \in BOOLEAN : Mercury(params, sc, idp)
    \/ \E c \in Facades, openOk \in BOOLEAN : connect(c, openOk)
    \/ \E c \in Facades, closeOk \in BOOLEAN : disconnect(c, closeOk)
    \/ \E c \in Facades, userAccount \in Accounts : login(c, userAccount)
    \/ \E p \in 1 .. Len(promises) : fulfilled(p)
    \/ \E p \in 1 .. Len(promises) : rejected(p)
    \/ \E c \in Facades, usernames \in Usernames : logout(c, usernames)
    \/ \E c \in Facades, settings \in Settings : setDefaultMediaSettings(c, settings)
    \/ \E id \in ClientIds : getClient(id)

Spec == Init /\ [][Next]_vars

(* ------------------- a webrtc.Mercury with sessions ------------------- *)
\* part_000:249-251: getUserSessions() hands out the private array itself,
\* and nothing in the facade ever adds to it (login does not), so a
\* collection with sessions is one the application filled through that
\* reference.  The states below are a webrtc.Mercury after n fulfilled
\* logins whose Users' sessions, some or all, were put into the array in
\* some order, each logged in or not.
InitSessions ==
    \E n \in 1 .. MaxSessions :
    \E accounts \in [1 .. n -> Accounts], loggedIn \in [1 .. n -> BOOLEAN] :
    \E len \in 0 .. n :
        /\ kind = <<"Mercury">>
        /\ client = <<NoId>>
        /\ connected \in {<<FALSE>>, <<TRUE>>}
        /\ mediaSettings = <<mercuryMediaSettings(undefined)>>
        /\ instances = [k \in Keys |-> null]
        /\ promises = [p \in 1 .. n |->
                           [identityProviderLogin(1, accounts[p])
                                EXCEPT !.state = "fulfilled"]]
        /\ session = [p \in 1 .. n |->
                          [userAccount |-> accounts[p], loggedIn |-> loggedIn[p]]]
        /\ online = [p \in 1 .. n |-> TRUE]
        /\ returned = [p \in 1 .. n |-> loginReturns(p)]
        /\ user \in {<<u>> : u \in {null} \cup (1 .. n)}
        /\ userSessions \in
               {<<a>> : a \in {b \in [1 .. len -> 1 .. n] :
                                  \A i, j \in 1 .. len : b[i] = b[j] => i = j}}
        /\ last = Call("getUserSessions", 1, "none", null, {})

\* part_000:196-215 on such a facade
NextSessions ==
    \E c \in Facades, usernames \in Usernames : logout(c, usernames)

SpecSessions == InitSessions /\ [][NextSessions]_vars

(* ------------------------------ claims -------------------------------- *)
\* the step just taken was a call of op on facade c
Called(op, c) == last'.op = op /\ last'.obj = c /\ last'.threw = "none"

\* C1: through any sequence of calls, isConnected() of a facade is true if
\* the most recent of its connect() and disconnect() calls was connect() and
\* false if it was disconnect(): connect() (also the one brightstream.connect
\* makes) leaves it true, disconnect() leaves it false, and no other call
\* changes it.
C1_ConnectedFollowsLastCall ==
    [][\A c \in 1 .. Len(kind') :
          IF Called("connect", c) \/ Called("brightstream.connect", c)
          THEN isConnected(c)'
          ELSE IF Called("disconnect", c)
          THEN ~isConnected(c)'
          ELSE c \in Facades => (isConnected(c)' <=> isConnected(c))]_vars

\* a disconnect() has just acted on one facade while another, connected
\* before, still reports connected
C1_Witness ==
    /\ last.op = "disconnect"
    /\ ~isConnected(last.obj)
    /\ \E d \in Facades : d # last.obj /\ isConnected(d)

\* C2: whatever the configuration, a facade that was just constructed and
\* on which connect() was not called reports isConnected() = false.
C2_ConstructedDisconnected ==
    (last.op \in {"createClient", "Mercury"} /\ last.threw = "none")
        => ~isConnected(last.obj)

\* a facade was just constructed from a configuration that gives constraints
C2_Witness ==
    /\ last.op = "createClient"
    /\ last.threw = "none"
    /\ getMediaSettings(last.obj).constraints \in GivenConstraints
    /\ ~isConnected(last.obj)

C4_LoginStateMachine ==
    [][\A c \in 1 .. Len(kind') :
          /\ c \notin Facades => ~isLoggedIn(c)'
          /\ (Called("logout", c) /\ logout(c, Omitted)) => ~isLoggedIn(c)'
          /\ (c \in Facades /\ ~isLoggedIn(c) /\ ~Called("fulfilled", c))
                 => ~isLoggedIn(c)']_vars

\* a logout() has just taken a logged-in webrtc.Client to logged out
C4_Witness ==
    /\ last.op = "logout"
    /\ last.calls # {}
    /\ user[last.obj] # null
    /\ promises[user[last.obj]].state = "fulfilled"
    /\ ~isLoggedIn(last.obj)

\* the facades that are webrtc.Client objects
Clients == {c \in Facades : kind[c] = "Client"}

\* account is one of the elements of the usernames array
Element(account, usernames) ==
    \E i \in 1 .. Len(usernames.list) : usernames.list[i] = account

\* the step just taken called the identity provider's logout for account
ProviderLogout(account) ==
    Invoke("identityProvider.logout", account, TRUE) \in last'.calls

\* C5: with a current user, logout(usernames) of a webrtc.Client calls the
\* provider's logout for the user's session and clears its loggedIn flag if
\* usernames is omitted or has the session's account among its elements, and
\* otherwise calls nothing and leaves the flag as it was.
C5_LogoutIffListed ==
    [][\A c \in Clients, usernames \in Usernames :
          (last'.op = "logout" /\ user[c] # null /\ logout(c, usernames)) =>
              LET s == session[user[c]]
              IN  IF ~usernames.given \/ Element(s.userAccount, usernames)
                  THEN /\ ProviderLogout(s.userAccount)
                       /\ ~session'[user[c]].loggedIn
                  ELSE /\ last'.calls = {}
                       /\ session'[user[c]].loggedIn = s.loggedIn]_vars

\* C6: logout, with or without usernames, of a facade that has no current
\* user does not throw, calls no collaborator, and leaves the current user,
\* the connected flag and every session as they were.
C6_LogoutWithoutUser ==
    [][last'.op = "logout" => \A c \in Facades, usernames \in Usernames :
          (user[c] = null /\ logout(c, usernames)) =>
              /\ last'.threw = "none"
              /\ last'.calls = {}
              /\ user' = user
              /\ connected' = connected
              /\ session' = session
              /\ userSessions' = userSessions]_vars

\* logout has just returned on a connected webrtc.Client that never had a
\* user, while one of its logins is pending
C6_Witness ==
    /\ last.op = "logout"
    /\ kind[last.obj] = "Client"
    /\ user[last.obj] = null
    /\ isConnected(last.obj)
    /\ \E p \in 1 .. Len(promises) :
           promises[p].facade = last.obj /\ promises[p].state = "pending"

\* C7: getClient of the id of a facade returns that very facade, and
\* getClient of an id no construction drew, or of no id, returns undefined.
\* (An entry that a failed construction wrote over is left aside: the
\* statement is about the facades that exist.)
C7_GetClientReturnsOwner ==
    /\ \A c \in Clients : getClientResult(String(client[c])) \in {c, Partial}
    /\ \A id \in ClientIds :
           (\A k \in Keys : PropertyKey(id) = k => instances[k] = null)
               => getClientResult(id) = null

\* C8: any two facades have distinct ids, and the registry entry of the id
\* of a facade is never the entry of another, later facade.
C8_DistinctIds ==
    /\ \A c, d \in Clients : c # d => client[c] # client[d]
    /\ \A c \in Clients : instances[client[c]] \in Clients
                               => instances[client[c]] = c

observed(q) ==
    IF q > 0
    THEN [state |-> promises[q].state,
          value |-> IF promises[q].state = "pending" THEN null ELSE q]
    ELSE [state |-> IF promises[-q].state = "pending" THEN "pending"
                    ELSE "fulfilled",
          value |-> null]

\* C11: the future a login call returned is the provider's own: its caller
\* observes fulfilment with the provider's User when the provider fulfils
\* it, rejection with the provider's error when the provider rejects it,
\* and nothing before; the facade's continuations change none of that.
C11_LoginReturnsProvidersFuture ==
    \A p \in 1 .. Len(promises) :
        LET seen == observed(returned[p])
        IN  /\ promises[p].state = "fulfilled"
                   => seen = [state |-> "fulfilled", value |-> p]
            /\ promises[p].state = "rejected"
                   => seen = [state |-> "rejected", value |-> p]
            /\ promises[p].state = "pending" => seen.state = "pending"

\* of two logins, the caller of one has seen its rejection and the caller of
\* the other its fulfilment, after the success continuation stored the User
C11_Witness ==
    \E p, q \in 1 .. Len(promises) :
        /\ observed(returned[p]) = [state |-> "rejected", value |-> p]
        /\ observed(returned[q]) = [state |-> "fulfilled", value |-> q]
        /\ user[promises[q].facade] = q
        /\ online[q]

\* C12: brightstream.connect returns the facade it has just constructed,
\* with the signaling channel's open invoked and isConnected() true;
\* createClient returns the facade it has just constructed, with no
\* collaborator invoked and isConnected() false.
C12_FactoriesConnectOrNot ==
    /\ (last.op = "brightstream.connect" /\ last.threw = "none") =>
           /\ last.result = Len(kind)
           /\ kind[last.result] = "Client"
           /\ \E openOk \in BOOLEAN :
                  last.calls = {Invoke("signalingChannel.open", "", openOk)}
           /\ isConnected(last.result)
    /\ (last.op = "createClient" /\ last.threw = "none") =>
           /\ last.result = Len(kind)
           /\ kind[last.result] = "Client"
           /\ last.calls = {}
           /\ ~isConnected(last.result)

\* brightstream.connect has just returned a second facade, connected though
\* its transport failed to open, next to a webrtc.Client that is not
C12_Witness ==
    /\ last.op = "brightstream.connect"
    /\ last.result = 2
    /\ Invoke("signalingChannel.open", "", FALSE) \in last.calls
    /\ isConnected(2)
    /\ kind[1] = "Client"
    /\ ~isConnected(1)

\* C13: connect() invokes the signaling channel's open, and isConnected()
\* is true afterwards whether the transport opened or not; disconnect()
\* invokes its close, and isConnected() is false afterwards whether the
\* transport closed or not.
C13_FlagWhateverTheOutcome ==
    /\ (last.op = "connect" /\ last.threw = "none") =>
           /\ \E openOk \in BOOLEAN :
                  last.calls = {Invoke("signalingChannel.open", "", openOk)}
           /\ isConnected(last.obj)
    /\ (last.op = "disconnect" /\ last.threw = "none") =>
           /\ \E closeOk \in BOOLEAN :
                  last.calls = {Invoke("signalingChannel.close", "", closeOk)}
           /\ ~isConnected(last.obj)

\* a connect() whose transport failed to open has just returned on a facade
\* that was not connected, and another facade is connected
C13_Witness ==
    /\ last.op = "connect"
    /\ last.calls = {Invoke("signalingChannel.open", "", FALSE)}
    /\ isConnected(last.obj)
    /\ \E d \in Facades : d # last.obj /\ isConnected(d)

\* C14: the connected flag of a facade becomes true only by a connect()
\* whose transport open succeeded (and stays true only until the next
\* disconnect(), which is C1's part).
C14_ConnectedOnlyAfterOpened ==
    [][\A c \in 1 .. Len(kind') :
          (isConnected(c)' /\ (c \notin Facades \/ ~isConnected(c))) =>
              /\ last'.obj = c
              /\ Invoke("signalingChannel.open", "", TRUE) \in last'.calls]_vars

\* C15: after logout() without an argument, which leaves no session of the
\* facade logged in, the facade's current user is null.
C15_LogoutClearsUser ==
    [][\A c \in Facades :
          (Called("logout", c) /\ logout(c, Omitted)) =>
              /\ ~isLoggedIn(c)'
              /\ user'[c] = null]_vars

\* C16: when a login of a webrtc.Mercury is fulfilled, the session of its
\* User is in the collection getUserSessions() returns, and isLoggedIn()
\* is true.
C16_LoginTracksSession ==
    [][\A c \in Facades :
          (kind[c] = "Mercury" /\ Called("fulfilled", c)) =>
              /\ \E i \in 1 .. Len(userSessions'[c]) :
                     userSessions'[c][i] = last'.result
              /\ isLoggedIn(c)']_vars

\* C17: logout(usernames) of a webrtc.Mercury whose collection holds
\* sessions calls the provider's logout for each session that usernames
\* lists (for all when it is omitted), clears their loggedIn flags, leaves
\* in the collection the other sessions in their order, and sets the
\* current user to null when, and only when, none is left.
C17_LogoutRemovesMatched ==
    [][\A c \in Facades, usernames \in Usernames :
          (/\ kind[c] = "Mercury"
           /\ userSessions[c] # <<>>
           /\ last'.op = "logout"
           /\ logout(c, usernames)) =>
              LET matched(u) == \/ ~usernames.given
                                \/ Element(session[u].userAccount, usernames)
                  kept == SelectSeq(userSessions[c], LAMBDA u : ~matched(u))
                  held == {userSessions[c][i] : i \in 1 .. Len(userSessions[c])}
              IN  /\ last'.threw = "none"
                  /\ last'.calls =
                         {Invoke("identityProvider.logout",
                                 session[u].userAccount, TRUE) :
                              u \in {v \in held : matched(v)}}
                  /\ \A u \in held : matched(u) => ~session'[u].loggedIn
                  /\ userSessions'[c] = kept
                  /\ user'[c] = IF kept = <<>> THEN null ELSE user[c]]_vars

\* C18: a login in flight cannot be cancelled.  While its future is
\* pending, connect(), disconnect() and logout() leave the future as it is
\* and the provider can fulfil it; and when the provider fulfils it,
\* setOnline() is invoked on the User and the User becomes the facade's
\* current user, whatever was called since the login.
C18_LoginNotCancelled ==
    [][\A p \in 1 .. Len(promises) :
          promises[p].state = "pending" =>
              /\ ENABLED fulfilled(p)
              /\ last'.op \in {"connect", "disconnect", "logout"}
                     => promises'[p] = promises[p]
              /\ fulfilled(p) =>
                     /\ Invoke("user.setOnline", "", TRUE) \in last'.calls
                     /\ online'[p]
                     /\ user'[promises[p].facade] = p]_vars

\* the first login of a webrtc.Client has just been fulfilled and its User
\* is the current user, after the second login was fulfilled and its
\* session logged out: that logout() ran while the first was in flight
C18_Witness ==
    /\ last.op = "fulfilled"
    /\ last.result = 1
    /\ kind[last.obj] = "Client"
    /\ user[last.obj] = 1
    /\ online[1]
    /\ Len(promises) = 2
    /\ promises[2].facade = last.obj
    /\ promises[2].state = "fulfilled"
    /\ ~session[2].loggedIn

\* the step just taken ran a constructor while the scopes held (sc) or did
\* not hold the signaling channel class and (idp) the identity provider
\* class
Constructing(sc, idp) ==
    \E params \in Params :
        \/ \E n \in makeUniqueID : createClient(params, n, sc, idp)
        \/ Mercury(params, sc, idp)

\* C19 as stated: a construction completes and returns a facade also when
\* the class of the signaling channel or of the identity provider cannot
\* be resolved.
C19_ConstructionCompletes ==
    [][\A sc, idp \in BOOLEAN :
          (last'.op \in {"createClient", "Mercury"} /\ Constructing(sc, idp)) =>
              /\ last'.threw = "none"
              /\ Len(kind') = Len(kind) + 1
              /\ last'.result = Len(kind')]_vars

\* C19, amended: a construction returns a facade when both classes are
\* resolved, and otherwise throws a TypeError and returns none, having
\* invoked no collaborator; so connect(), disconnect(), login() and
\* logout() of a facade never fail for a collaborator that is missing.
C19_UnresolvedClassThrows ==
    [][/\ \A sc, idp \in BOOLEAN :
             (last'.op \in {"createClient", "Mercury"} /\ Constructing(sc, idp)) =>
                 IF sc /\ idp
                 THEN /\ last'.threw = "none"
                      /\ Len(kind') = Len(kind) + 1
                      /\ last'.result = Len(kind')
                 ELSE /\ last'.threw = "TypeError"
                      /\ last'.result = null
                      /\ last'.calls = {}
                      /\ kind' = kind
       /\ last'.op \in {"connect", "disconnect", "login", "logout"}
             => last'.threw # "TypeError"]_vars

\* a construction has just thrown, next to a facade constructed before
C19_Witness ==
    /\ last.op \in {"createClient", "Mercury"}
    /\ last.threw = "TypeError"
    /\ last.result = null
    /\ Facades # {}

\* C20: the registry changes only in a step that runs the constructor of
\* webrtc.Client (createClient, brightstream.connect); connect, disconnect,
\* login and its continuations, logout, setDefaultMediaSettings and
\* getClient leave it as it is; and a key that has an entry keeps having
\* one.
C20_RegistryOnlyGrows ==
    [][/\ instances' # instances
             => last'.op \in {"createClient", "brightstream.connect"}
       /\ last'.op \in {"connect", "disconnect", "login", "fulfilled",
                        "rejected", "logout", "setDefaultMediaSettings",
                        "getClient"}
             => instances' = instances
       /\ \A k \in Keys : instances[k] # null => instances'[k] # null]_vars

\* disconnect() has just returned on a registered, logged-in webrtc.Client
\* whose entry getClient still finds
C20_Witness ==
    /\ last.op = "disconnect"
    /\ kind[last.obj] = "Client"
    /\ isLoggedIn(last.obj)
    /\ getClientResult(String(client[last.obj])) = last.obj

\* C21: connect() and disconnect() change no current user, no session and
\* no media settings; login, its two continuations, logout and
\* setDefaultMediaSettings change no connected flag; and login does not
\* throw on a facade that is not connected, whose fulfilment makes the User
\* its current user while it stays not connected.
C21_ConnectionAndLoginIndependent ==
    [][/\ last'.op \in {"connect", "disconnect"} =>
             /\ user' = user
             /\ session' = session
             /\ userSessions' = userSessions
             /\ mediaSettings' = mediaSettings
       /\ last'.op \in {"login", "fulfilled", "rejected", "logout",
                        "setDefaultMediaSettings"} =>
             connected' = connected
       /\ \A c \in Facades :
             ~isConnected(c) =>
                 /\ last'.op = "login" /\ last'.obj = c => last'.threw = "none"
                 /\ Called("fulfilled", c) =>
                        /\ user'[c] = last'.result
                        /\ online'[last'.result]
                        /\ ~isConnected(c)']_vars

\* a login of a webrtc.Client that is not connected has just been fulfilled:
\* the facade is logged in and still not connected, next to a connected one
C21_Witness ==
    /\ last.op = "fulfilled"
    /\ kind[last.obj] = "Client"
    /\ ~isConnected(last.obj)
    /\ user[last.obj] = last.result
    /\ isLoggedIn(last.obj)
    /\ \E d \in Facades : d # last.obj /\ isConnected(d)

\* C22: when the provider fulfils a login of a facade another of whose
\* logins was fulfilled before, the User of the one fulfilled now is the
\* current user, whichever of the two was issued first, and setOnline()
\* has been invoked on both Users.
C22_LastFulfilledWins ==
    [][\A p, q \in 1 .. Len(promises) :
          (/\ p # q
           /\ promises[p].facade = promises[q].facade
           /\ promises[q].state = "fulfilled"
           /\ promises[p].state = "pending"
           /\ fulfilled(p)) =>
              /\ user'[promises[p].facade] = p
              /\ online'[p]
              /\ online'[q]]_vars

\* of two logins of a facade in flight together, the one issued first has
\* just been fulfilled, after the other, and its User is the current user
C22_Witness ==
    /\ last.op = "fulfilled"
    /\ last.result = 1
    /\ Len(promises) = 2
    /\ promises[2].facade = last.obj
    /\ promises[2].state = "fulfilled"
    /\ session[2].loggedIn
    /\ user[last.obj] = 1
    /\ online[1] /\ online[2]

\* C23: every entry of the registry is a facade whose constructor
\* returned; a construction that throws leaves no entry.
C23_EntriesAreFacades ==
    \A k \in Keys : instances[k] # null => instances[k] \in Facades

=============================================================================
